---- MODULE Spec2Model ----
(***************************************************************************)
(* Ball-Tracker (src/main.py): a capture loop that reads a frame, finds    *)
(* the largest green contour, classifies its centroid as Left / Center /   *)
(* Right, annotates the frame, shows it and polls the keyboard.            *)
(*                                                                         *)
(* A frame is represented by what the OpenCV pipeline of process_frame     *)
(* (resize, blur, HSV, inRange, erode, dilate, findContours) extracts from *)
(* it: the list of contours, each with the values the code asks the        *)
(* library for (contourArea, minEnclosingCircle radius, moments).          *)
(* A radius is a real number; it is kept as its integer part and a flag    *)
(* telling whether a non-zero fractional part follows.                     *)
(***************************************************************************)
EXTENDS Integers, Sequences, FiniteSets

\* ---------------------------------------------------------------- constants
FRAME_WIDTH == 1200
LATERAL_THRESHOLD == 100
MIN_RADIUS == 10
ORD_Q == 113
KEY_MASK == 256
CENTROID_RADIUS == 5

\* ------------------------------------------------------------------- bounds
MaxContours == 2
MaxArea == 2

\* ------------------------------------------------------------------ colours
YELLOW == <<0, 255, 255>>
RED == <<0, 0, 255>>
GREEN == <<0, 255, 0>>
BLUE == <<255, 0, 0>>

\* ------------------------------------------------------------------- inputs
Modes == {"web", "mobile"}
IpAddresses == {"None", "", "192.168.0.2"}
Kinds == {"Exception", "KeyboardInterrupt"}
\* cv2.waitKey results: no key (-1), the key 'a', the key 'q', and 'q' with a
\* modifier bit set above the low byte
Keys == {-1, 97, ORD_Q, ORD_Q + KEY_MASK}

frame_center == FRAME_WIDTH \div 2

\* centroid columns around the two places where the classification changes
CenterXs == {frame_center - LATERAL_THRESHOLD - 1, frame_center - LATERAL_THRESHOLD,
             frame_center + LATERAL_THRESHOLD, frame_center + LATERAL_THRESHOLD + 1}
CenterYs == {MIN_RADIUS}

RadiusAtMin == [whole |-> MIN_RADIUS, frac |-> FALSE]
RadiusAboveMin == [whole |-> MIN_RADIUS, frac |-> TRUE]

\* moments whose centroid column truncates to cx (the quotient is exact for
\* m00 = 1 and has a remainder for m00 > 1)
MomentsAt(m00, cx, cy) ==
    [m00 |-> m00, m10 |-> cx * m00 + (m00 - 1), m01 |-> cy * m00 + (m00 - 1)]

\* contours of area a: large enough ones around the two classification
\* boundaries, one whose enclosing radius is exactly MIN_RADIUS, and a
\* degenerate one whose zeroth moment is 0
ContoursOfArea(a) ==
    {[area |-> a, radius |-> RadiusAboveMin, M |-> MomentsAt(a, cx, cy)] :
        cx \in CenterXs, cy \in CenterYs}
    \cup {[area |-> a, radius |-> RadiusAtMin, M |-> MomentsAt(a, frame_center, cy)] :
        cy \in CenterYs}
    \cup {[area |-> a, radius |-> RadiusAboveMin, M |-> [m00 |-> 0, m10 |-> 0, m01 |-> 0]]}

Contours == UNION {ContoursOfArea(a) : a \in 1..MaxArea}

SeqsUpTo(S, n) == UNION {[1..k -> S] : k \in 0..n}

ContourLists == SeqsUpTo(Contours, MaxContours)

\* ------------------------------------------------------------ pure helpers
\* cv2.contourArea(c)
contourArea(c) == c.area

\* radius > n for a real radius and an integer n
RadiusGreater(radius, n) == radius.whole > n \/ (radius.whole = n /\ radius.frac)

\* int(radius)
IntRadius(radius) == radius.whole

\* mutant: the size filter written with >= instead of >
QualifiesAtMin(c) == c.M.m00 > 0 /\ c.radius.whole >= MIN_RADIUS

\* M["m00"] > 0 and radius > MIN_RADIUS
Qualifies(c) == c.M.m00 > 0 /\ RadiusGreater(c.radius, MIN_RADIUS)

\* mutant: the size filter applied before the selection, so that the largest
\* contour that passes it is chosen
MaxContourFiltered(cnts) ==
    LET good == {k \in 1..Len(cnts) : Qualifies(cnts[k])}
        pool == IF good = {} THEN 1..Len(cnts) ELSE good
        i == CHOOSE k \in pool :
                 /\ \A j \in pool : contourArea(cnts[j]) <= contourArea(cnts[k])
                 /\ \A j \in pool : j < k => contourArea(cnts[j]) < contourArea(cnts[k])
    IN cnts[i]

\* Python's max(cnts, key=...): the first element whose key is maximal
MaxContour(cnts) ==
    LET i == CHOOSE k \in 1..Len(cnts) :
                 /\ \A j \in 1..Len(cnts) : contourArea(cnts[j]) <= contourArea(cnts[k])
                 /\ \A j \in 1..(k - 1) : contourArea(cnts[j]) < contourArea(cnts[k])
    IN cnts[i]


\* (int(M["m10"] / M["m00"]), int(M["m01"] / M["m00"])), moments non-negative
Centroid(M) == <<M.m10 \div M.m00, M.m01 \div M.m00>>

\* mutant: the dead zone written with <= and >=, which excludes its two ends
ClassifyExclusive(center_x) ==
    IF center_x <= frame_center - LATERAL_THRESHOLD THEN "Left"
    ELSE IF center_x >= frame_center + LATERAL_THRESHOLD THEN "Right"
    ELSE "Center"

\* if / elif / else on center[0]
Classify(center_x) ==
    IF center_x < frame_center - LATERAL_THRESHOLD THEN "Left"
    ELSE IF center_x > frame_center + LATERAL_THRESHOLD THEN "Right"
    ELSE "Center"

\* mutant: the label drawn in one colour whatever the direction
LabelColourFixed(direction) == GREEN

\* (0, 255, 0) if direction != "Not Detected" else (0, 0, 255)
LabelColour(direction) == IF direction # "Not Detected" THEN GREEN ELSE RED

DrawOp(op, arg, text, colour, thickness) ==
    [op |-> op, arg |-> arg, text |-> text, colour |-> colour, thickness |-> thickness]

\* the three vertical lines of draw_guidelines (width = FRAME_WIDTH after resize)
draw_guidelines ==
    LET center_x == FRAME_WIDTH \div 2
    IN << DrawOp("line", <<center_x>>, "", BLUE, 2),
          DrawOp("line", <<center_x - LATERAL_THRESHOLD>>, "", GREEN, 1),
          DrawOp("line", <<center_x + LATERAL_THRESHOLD>>, "", GREEN, 1) >>

NoImage == [direction |-> "", center |-> <<>>, draws |-> <<>>]

\* process_frame(frame): the annotated frame, with the values of its locals
\* center and direction
process_frame(cnts) ==
    LET detected == cnts # <<>> /\ Qualifies(MaxContour(cnts))
        c == MaxContour(cnts)
        center == IF detected THEN Centroid(c.M) ELSE <<>>
        direction == IF detected THEN Classify(center[1]) ELSE "Not Detected"
        marks == IF detected
                 THEN << DrawOp("circle", <<IntRadius(c.radius)>>, "", YELLOW, 2),
                         DrawOp("circle", center \o <<CENTROID_RADIUS>>, "", RED, -1) >>
                 ELSE <<>>
    IN [direction |-> direction,
        center |-> center,
        draws |-> marks
                  \o << DrawOp("text", <<10, 30>>, direction, LabelColour(direction), 2) >>
                  \o draw_guidelines]

\* ------------------------------------------------------------------- state
VARIABLES pc, vc, cap, ret, frame, processed_frame, window, key, exc, log

vars == <<pc, vc, cap, ret, frame, processed_frame, window, key, exc, log>>

Running == {"read", "process", "imshow", "waitKey"}

NoCapture == [constructed |-> FALSE, source |-> <<>>, opened |-> FALSE, released |-> FALSE]
NoFrame == [img |-> FALSE, cnts |-> <<>>]
NoWindow == [open |-> FALSE, shown |-> NoImage]

Init ==
    /\ pc = "start"
    /\ vc = NoCapture
    /\ cap = "None"
    /\ ret = "unset"
    /\ frame = NoFrame
    /\ processed_frame = NoImage
    /\ window = NoWindow
    /\ key = -1
    /\ exc = "none"
    /\ log = {}

\* Python truthiness of args.ip
Truthy(ip) == ip \notin {"None", ""}

VideoCapture(source, ok) ==
    [constructed |-> TRUE, source |-> source, opened |-> ok, released |-> FALSE]

\* mutant: the capture object returned without the isOpened() check
initialize_video_capture_unchecked(mode, ip_address, ok) ==
    LET built == IF mode = "web" THEN VideoCapture(<<"0">>, ok)
                 ELSE IF mode = "mobile" /\ Truthy(ip_address)
                      THEN VideoCapture(<<"http://", ip_address, ":8080/video">>, ok)
                      ELSE NoCapture
    IN IF ~built.constructed
       THEN [vc |-> built, cap |-> "None",
             log |-> {"Invalid mode or missing IP address for mobile mode"}]
       ELSE [vc |-> built, cap |-> "vc", log |-> {}]

\* initialize_video_capture(mode, ip_address); ok is whether the device or
\* stream opens.  Result: the capture object constructed (if any), the value
\* returned and the messages logged.
initialize_video_capture(mode, ip_address, ok) ==
    LET built == IF mode = "web" THEN VideoCapture(<<"0">>, ok)
                 ELSE IF mode = "mobile" /\ Truthy(ip_address)
                      THEN VideoCapture(<<"http://", ip_address, ":8080/video">>, ok)
                      ELSE NoCapture
    IN IF ~built.constructed
       THEN [vc |-> built, cap |-> "None",
             log |-> {"Invalid mode or missing IP address for mobile mode"}]
       ELSE IF ~built.opened
            THEN [vc |-> built, cap |-> "None", log |-> {"Failed to open video capture"}]
            ELSE [vc |-> built, cap |-> "vc", log |-> {}]

\* main, up to the loop: cap = initialize_video_capture(...); return if None
MainStart ==
    /\ pc = "start"
    /\ \E mode \in Modes, ip \in IpAddresses, ok \in BOOLEAN :
          LET r == initialize_video_capture(mode, ip, ok)
          IN /\ vc' = r.vc
             /\ cap' = r.cap
             /\ log' = log \cup r.log
             /\ pc' = IF r.cap = "None" THEN "returned" ELSE "read"
    /\ UNCHANGED <<ret, frame, processed_frame, window, key, exc>>

\* the finally block (cap.release(), cv2.destroyAllWindows(), log), entered
\* after the messages in logged were written; main then returns and its
\* image buffers are gone
finally_block(logged) ==
    /\ vc' = [vc EXCEPT !.released = TRUE]
    /\ window' = NoWindow
    /\ log' = log \cup logged \cup {"Resources released and program terminated"}
    /\ frame' = NoFrame
    /\ processed_frame' = NoImage
    /\ pc' = "returned"

\* mutant: a failed read is logged and the loop continues with the next read
CapReadRetry ==
    /\ pc = "read"
    /\ \E ok \in BOOLEAN, cnts \in ContourLists :
          IF ok
          THEN /\ ret' = "True"
               /\ frame' = [img |-> TRUE, cnts |-> cnts]
               /\ pc' = "process"
               /\ UNCHANGED log
          ELSE /\ ret' = "False"
               /\ log' = log \cup {"Failed to read frame from video capture"}
               /\ UNCHANGED <<frame, pc>>
    /\ key' = -1
    /\ UNCHANGED <<vc, processed_frame, window, cap, exc>>

\* ret, frame = cap.read(); if not ret: log the error and break.
\* key is the result of the poll of the current iteration, -1 before it.
CapRead ==
    /\ pc = "read"
    /\ \E ok \in BOOLEAN, cnts \in ContourLists :
          IF ok
          THEN /\ ret' = "True"
               /\ frame' = [img |-> TRUE, cnts |-> cnts]
               /\ pc' = "process"
               /\ UNCHANGED <<vc, processed_frame, window, log>>
          ELSE /\ ret' = "False"
               /\ finally_block({"Failed to read frame from video capture"})
    /\ key' = -1
    /\ UNCHANGED <<cap, exc>>

\* mutant: a frame without detection keeps the annotation of the frame before
ProcessFrameSticky ==
    /\ pc = "process"
    /\ processed_frame' = IF process_frame(frame.cnts).center = <<>> /\ processed_frame # NoImage
                          THEN processed_frame
                          ELSE process_frame(frame.cnts)
    /\ pc' = "imshow"
    /\ UNCHANGED <<vc, cap, ret, frame, window, key, exc, log>>

\* processed_frame = process_frame(frame)
ProcessFrame ==
    /\ pc = "process"
    /\ processed_frame' = process_frame(frame.cnts)
    /\ pc' = "imshow"
    /\ UNCHANGED <<vc, cap, ret, frame, window, key, exc, log>>

\* cv2.imshow(FRAME_TITLE, processed_frame)
Imshow ==
    /\ pc = "imshow"
    /\ window' = [open |-> TRUE, shown |-> processed_frame]
    /\ pc' = "waitKey"
    /\ UNCHANGED <<vc, cap, ret, frame, processed_frame, key, exc, log>>

\* k & 0xFF
LowByte(k) == k % KEY_MASK

\* mutant: the stop key is logged but the loop is not left
WaitKeyNoBreak ==
    /\ pc = "waitKey"
    /\ \E k \in Keys :
          /\ key' = k
          /\ log' = IF LowByte(k) = ORD_Q
                    THEN log \cup {"Exit command received - terminating"} ELSE log
    /\ pc' = "read"
    /\ frame' = NoFrame
    /\ UNCHANGED <<vc, processed_frame, window, cap, ret, exc>>

\* if cv2.waitKey(1) & 0xFF == ord('q'): log, break (through finally).
\* Otherwise the loop iterates; the raw frame is dead from here on (cap.read
\* rebinds it before any use) and is dropped.
WaitKey ==
    /\ pc = "waitKey"
    /\ \E k \in Keys :
          /\ key' = k
          /\ IF LowByte(k) = ORD_Q
             THEN finally_block({"Exit command received - terminating"})
             ELSE /\ pc' = "read"
                  /\ frame' = NoFrame
                  /\ UNCHANGED <<vc, processed_frame, window, log>>
    /\ UNCHANGED <<cap, ret, exc>>

\* mutant: no finally clause, so an exception leaves main at once
RaiseNoFinally ==
    /\ pc \in Running
    /\ \E kind \in Kinds :
          /\ exc' = kind
          /\ log' = log \cup (IF kind = "Exception" THEN {"An error occurred"} ELSE {})
    /\ frame' = NoFrame
    /\ processed_frame' = NoImage
    /\ pc' = "returned"
    /\ UNCHANGED <<vc, window, cap, ret, key>>

\* a step of the loop body raises: an Exception is logged by the except
\* clause, a KeyboardInterrupt is not caught; the finally block runs either way
Raise ==
    /\ pc \in Running
    /\ \E kind \in Kinds :
          /\ exc' = kind
          /\ finally_block(IF kind = "Exception" THEN {"An error occurred"} ELSE {})
    /\ UNCHANGED <<cap, ret, key>>

Next == MainStart \/ CapRead \/ ProcessFrame \/ Imshow \/ WaitKey \/ Raise

Spec == Init /\ [][Next]_vars

\* ------------------------------------------------------------- properties
\* the states in which processed_frame is the annotation of frame
Processed == pc \in {"imshow", "waitKey"}

Directions == {"Left", "Center", "Right"}

\* Reference reading of the detector, written with quantifiers: index i is
\* the selected region of cnts when no region has a greater area and no
\* earlier region has the same area
IsSelected(cnts, i) ==
    /\ i \in 1..Len(cnts)
    /\ \A j \in 1..Len(cnts) : cnts[j].area <= cnts[i].area
    /\ \A j \in 1..Len(cnts) : cnts[j].area = cnts[i].area => i <= j

\* the enclosing radius is at most MIN_RADIUS
AtMostMin(radius) ==
    radius.whole < MIN_RADIUS \/ (radius.whole = MIN_RADIUS /\ ~radius.frac)

PassesFilter(c) == c.M.m00 > 0 /\ ~AtMostMin(c.radius)

NoQualifyingBlob(cnts) ==
    \A i \in 1..Len(cnts) : IsSelected(cnts, i) => ~PassesFilter(cnts[i])

HasOp(image, op) == \E k \in 1..Len(image.draws) : image.draws[k].op = op

\* C1: a detected centroid column left of mid - threshold is Left, right of
\* mid + threshold is Right, and anything in [mid - threshold, mid + threshold],
\* both ends (500 and 700) included, is Center; the three cases partition the
\* columns.
C1_ClassificationPartition ==
    processed_frame.center # <<>> =>
        LET cx == processed_frame.center[1]
            d == processed_frame.direction
            mid == FRAME_WIDTH \div 2
        IN /\ mid = 600 /\ LATERAL_THRESHOLD = 100
           /\ d \in Directions
           /\ (d = "Left") <=> (cx < mid - LATERAL_THRESHOLD)
           /\ (d = "Right") <=> (cx > mid + LATERAL_THRESHOLD)
           /\ (d = "Center") <=> (mid - LATERAL_THRESHOLD <= cx /\ cx <= mid + LATERAL_THRESHOLD)
           /\ (cx = 500 \/ cx = 700) => d = "Center"

C1_Witness ==
    /\ pc = "imshow"
    /\ processed_frame.center # <<>>
    /\ processed_frame.center[1] = 700
    /\ processed_frame.direction = "Center"
    /\ window.shown.direction = "Left"

C3_ReleaseOnEveryExit ==
    [][ /\ (pc \in Running /\ pc' \notin Running) =>
              (cap = "vc" /\ vc'.released /\ ~window'.open /\ pc' = "returned")
        /\ ~vc.released ]_vars

C3_Witness ==
    /\ pc = "returned"
    /\ cap = "vc"
    /\ exc = "Exception"
    /\ ret = "True"
    /\ vc.released
    /\ ~window.open

\* C4: when no source could be opened (mobile without address, or the
\* device or stream does not open) an error was logged, main holds no capture
\* and has returned without reading, processing or displaying a frame.
C4_NoSourceNoLoop ==
    (pc # "start" /\ ~(vc.constructed /\ vc.opened)) =>
        /\ cap = "None"
        /\ pc = "returned"
        /\ log \in {{"Invalid mode or missing IP address for mobile mode"},
                    {"Failed to open video capture"}}
        /\ ret = "unset"
        /\ frame = NoFrame
        /\ processed_frame = NoImage
        /\ window = NoWindow

C4_Witness ==
    /\ pc = "returned"
    /\ cap = "None"
    /\ ~vc.constructed
    /\ log = {"Invalid mode or missing IP address for mobile mode"}

\* C5: every failure ends the run with the resources acquired so far
\* released; in particular a capture object that was constructed is released
\* by the time main has returned, also when it reported not opened.
C5_EveryFailureReleases ==
    (pc = "returned" /\ vc.constructed) => vc.released

\* C6: a frame without qualifying blob is processed normally: direction Not
\* Detected, no centre, no circle drawn, label in the not-detected colour
\* (used exactly for Not Detected); unless something raises, the frame is
\* then displayed, and unless the stop key is polled the next frame is read.
C6_NotDetectedIsNormal ==
    [][ /\ (pc = "process" /\ exc' = exc) =>
              /\ pc' = "imshow"
              /\ NoQualifyingBlob(frame.cnts) =>
                    /\ processed_frame'.direction = "Not Detected"
                    /\ processed_frame'.center = <<>>
                    /\ ~HasOp(processed_frame', "circle")
              /\ HasOp(processed_frame', "text")
              /\ \A k \in 1..Len(processed_frame'.draws) :
                    processed_frame'.draws[k].op = "text" =>
                        /\ processed_frame'.draws[k].text = processed_frame'.direction
                        /\ (processed_frame'.draws[k].colour = RED)
                              <=> (processed_frame'.direction = "Not Detected")
        /\ (pc = "imshow" /\ processed_frame.direction = "Not Detected" /\ exc' = exc) =>
              (pc' = "waitKey" /\ window'.open /\ window'.shown = processed_frame)
        /\ (pc = "waitKey" /\ processed_frame.direction = "Not Detected" /\ exc' = exc
               /\ key' % 256 # 113) =>
              pc' = "read" ]_vars

C6_Witness ==
    /\ pc = "read"
    /\ window.open
    /\ window.shown.direction = "Not Detected"
    /\ ~HasOp(window.shown, "circle")
    /\ exc = "none"

\* C7: the step in which cap.read fails goes straight to Stopped (nothing
\* is processed, displayed or polled in between), and after a failed read no
\* step is taken at all, so cap.read is not called again.
C7_FailedReadNotRetried ==
    [][ /\ ret # "False"
        /\ (pc = "read" /\ ret' = "False") =>
              (pc' = "returned" /\ vc'.released /\ ~window'.open
                 /\ processed_frame' = NoImage /\ key' = -1) ]_vars

C7_Witness ==
    /\ pc = "returned"
    /\ ret = "False"
    /\ "Failed to read frame from video capture" \in log
    /\ vc.released

\* C8: the detection result and the direction of a processed frame are
\* those the current frame's contours determine, whatever was processed and
\* displayed before.
C8_DependsOnCurrentFrameOnly ==
    Processed =>
        IF NoQualifyingBlob(frame.cnts)
        THEN processed_frame.center = <<>> /\ processed_frame.direction = "Not Detected"
        ELSE \E i \in 1..Len(frame.cnts) :
                /\ IsSelected(frame.cnts, i)
                /\ processed_frame.center[1] * frame.cnts[i].M.m00 <= frame.cnts[i].M.m10
                /\ frame.cnts[i].M.m10 < (processed_frame.center[1] + 1) * frame.cnts[i].M.m00
                /\ processed_frame.direction =
                      (IF frame.cnts[i].M.m10 < 500 * frame.cnts[i].M.m00 THEN "Left"
                       ELSE IF frame.cnts[i].M.m10 >= 701 * frame.cnts[i].M.m00 THEN "Right"
                       ELSE "Center")

C8_Witness ==
    /\ pc = "imshow"
    /\ window.open
    /\ window.shown.direction = "Right"
    /\ frame.cnts # <<>>
    /\ processed_frame.direction = "Not Detected"

\* C9: the steps of an iteration come in the order read, process, display,
\* poll; a read follows only the start or a poll that did not return the stop
\* key, and a poll that returns 'q' stops the loop at once.
C9_IterationOrder ==
    [][ /\ pc = "read" => pc' \in {"process", "returned"}
        /\ pc = "process" => pc' \in {"imshow", "returned"}
        /\ pc = "imshow" => pc' \in {"waitKey", "returned"}
        /\ pc = "waitKey" => pc' \in {"read", "returned"}
        /\ pc' = "read" => (pc = "start" \/ (pc = "waitKey" /\ key' % 256 # 113))
        /\ (pc = "waitKey" /\ key' % 256 = 113) =>
              (pc' = "returned" /\ vc'.released /\ ~window'.open) ]_vars

C9_Witness ==
    /\ pc = "returned"
    /\ key = 113
    /\ exc = "none"
    /\ ret = "True"
    /\ "Exit command received - terminating" \in log

\* C10: only the region of greatest area is examined: if it fails the size
\* filter (radius not above the minimum, or zeroth moment zero) there is no
\* detection even when a smaller region would pass; if it passes, the centre
\* is its moment centroid truncated to integers.
C10_LargestRegionOnly ==
    Processed =>
        \A i \in 1..Len(frame.cnts) :
            IsSelected(frame.cnts, i) =>
                IF PassesFilter(frame.cnts[i])
                THEN processed_frame.center =
                        << frame.cnts[i].M.m10 \div frame.cnts[i].M.m00,
                           frame.cnts[i].M.m01 \div frame.cnts[i].M.m00 >>
                ELSE /\ processed_frame.center = <<>>
                     /\ processed_frame.direction = "Not Detected"

C10_Witness ==
    /\ Processed
    /\ Len(frame.cnts) = 2
    /\ frame.cnts[1].area < frame.cnts[2].area
    /\ PassesFilter(frame.cnts[1])
    /\ frame.cnts[2].M.m00 > 0
    /\ AtMostMin(frame.cnts[2].radius)
    /\ processed_frame.direction = "Not Detected"

====
